---- MODULE Spec2Model ----
(***************************************************************************)
(* Model of burntnail-utils.                                               *)
(*                                                                         *)
(* MemoryCacher<T, N> (src/src/memcache.rs): a circular cache backed by an *)
(* array of N possibly-uninitialised slots, a cursor `index`, a flag       *)
(* `full`, and an optional DoOnInterval gate `timer`.                      *)
(*                                                                         *)
(* ScopedToListTimer and ThreadSafeScopedToListTimer                       *)
(* (src/src/time_based_structs/scoped_timers.rs): timers that push the     *)
(* time they lived into a MemoryCacher<Duration, N> when they are dropped, *)
(* the second through an Arc<Mutex<..>> shared between threads.            *)
(***************************************************************************)
EXTENDS Integers, Sequences, FiniteSets, TLC

\* ------------------------------------------------------------------ bounds
\* Largest capacity N explored (N ranges over 0..MaxN).
MaxN == 3
\* Element values pushed are 0..MaxVal.
MaxVal == 1
\* Largest number of push calls in one behaviour.
MaxPushes == 5
\* Number of threads that share one mutex-protected container.
NumThreads == 2
\* Largest number of push calls offered to a gated container whose every
\* offer is recorded.
MaxOffers == 4
\* Largest MAX_WIDTH and MAX_HEIGHT explored (each ranges over 0..MaxDim).
MaxDim == 3
\* Largest value of the narrow numeric types a Coords can be built on (u8's
\* 255 and i8's 127, cut down).
NarrowMax == 1
\* Largest value of the integer type the averages count and sum in (u8's 255,
\* cut down): arithmetic on it overflows above IntMax.
IntMax == 2

\* ------------------------------------------------------------------- state
VARIABLES
    N,                \* const generic N: size of the backing array
    data,             \* [MaybeUninit<T>; N], slots 0..N-1
    full,             \* MemoryCacher::full
    index,            \* MemoryCacher::index
    timer,            \* MemoryCacher::timer: "None", or the kind of gate held
    phase,            \* "live", "consumed" (get_all took self) or "panicked"
    lastOp,           \* the operation that ran last
    ret,              \* what the last operation returned
    lastCan,          \* the value of `can` in the last push
    pushed,           \* history: the values of the accepted pushes, in order
    pushCalls,        \* history: number of push calls
    canDoCalls,       \* history: number of can_do() calls on the gate
    updateTimerCalls, \* history: number of update_timer() calls on the gate
    droppedUninit,    \* history: push ran assume_init_drop on a never-written slot
    readUninit,       \* history: a read ran assume_init_read on a never-written slot
    lastTrace,        \* history: what the last push did, step by step
    newArgs,          \* history: the capacity and gate new() was given
    overflowChecks,   \* the build: TRUE if integer overflow panics, FALSE if it wraps
    count,            \* the local `count` of the last average when it stopped
    panicMsg,         \* the message of the panic, "" while there is none
    offered,          \* history: every push call as <<value, gate answer>>
    now,              \* the clock Instant::now() reads
    stAlive,          \* a ScopedToListTimer is in scope
    stStart,          \* ScopedToListTimer.1: the Instant taken by new()
    stDropped,        \* history: number of ScopedToListTimers dropped
    stExit,           \* history: how the last ScopedToListTimer left its scope
    tpc,              \* per thread: where it is with its ThreadSafeScopedToListTimer
    tstart,           \* per thread: ThreadSafeScopedToListTimer.1
    telapsed,         \* per thread: the local `elapsed` of drop
    twaited,          \* history, per thread: clock ticks spent blocked on the lock
    holder,           \* the thread holding the MutexGuard, 0 when the mutex is free
    poisoned,         \* the mutex's poison flag
    tracing,          \* the build: TRUE if the `tracing` feature is enabled
    MAX_WIDTH,        \* const generic MAX_WIDTH of Coords (W of TwoArray)
    MAX_HEIGHT,       \* const generic MAX_HEIGHT of Coords (H of TwoArray)
    numT,             \* the numeric type T of Coords<T, _, _>
    coord,            \* a Coords value: OutOfBounds or InBounds(x, y)
    cop,              \* the Coords operation that ran last, with its operands
    cret,             \* what the last increment() returned
    cpath,            \* history: the values of `coord` since default(), while
                      \* nothing but increment() ran; <<>> otherwise
    cpanic,           \* the panic of the last Coords operation, "" if none
    afn,              \* the function f given to TwoArray::from_function
    backing,          \* TwoArray::backing / TwoArrayIterator::backing
    fcalls,           \* history: the coordinates f was called with, in order
    aphase,           \* "none", "built", "iterating", "panicked", or
                      \* "unfinished": from_function was still looping at MaxPath
    itpos,            \* TwoArrayIterator::current_position
    itout,            \* history: the items next() yielded, in order
    itlast,           \* what the last next() returned
    apanic,           \* the panic that ended from_function or next, "" if none
    assets,           \* Cacher::assets, NoTexture where the map has no entry
    attempts,         \* history: calls of Texture::from_path, per path
    okLoads,          \* history: calls of Texture::from_path that returned Ok
    alast             \* the last Cacher call: <<name, path, result>>

cacherVars == <<N, data, full, index, timer, phase, lastOp, ret, lastCan, pushed,
                pushCalls, canDoCalls, updateTimerCalls, droppedUninit, readUninit,
                lastTrace, newArgs, overflowChecks, count, panicMsg>>

scopedVars == <<now, stAlive, stStart, stDropped, stExit>>

threadVars == <<tpc, tstart, telapsed, twaited, holder, poisoned>>

coordVars == <<MAX_WIDTH, MAX_HEIGHT, numT, coord, cop, cret, cpath, cpanic>>

arrayVars == <<afn, backing, fcalls, aphase, itpos, itout, itlast, apanic>>

assetVars == <<assets, attempts, okLoads, alast>>

otherVars == <<coordVars, arrayVars, assetVars>>

vars == <<cacherVars, offered, scopedVars, threadVars, tracing, otherVars>>

\* The element type T, cut down to a few values.
Values == 0..MaxVal

\* MaybeUninit::uninit(): a slot no push has written.
Uninit == -1

\* The gates new() can be given: no gate, a gate whose interval elapses at
\* times the container does not control, a gate whose interval never elapses.
Timers == {"None", "Interval", "Never"}

\* What can_do() may answer for the gate held.
CanDoAnswers == IF timer = "Never" THEN {FALSE} ELSE BOOLEAN

\* ------------------------------------------------------------ construction
\* Default::default(): every slot uninitialised.
DefaultData(n) == [i \in 0..(n - 1) |-> Uninit]

newWithoutGate(n, t) ==
    /\ N = n
    /\ data = DefaultData(n)
    /\ full = FALSE
    /\ index = 0
    /\ timer = "None"

\* MemoryCacher::new(t)
new(n, t) ==
    /\ N = n
    /\ data = DefaultData(n)
    /\ full = FALSE
    /\ index = 0
    /\ timer = t

\* The threads that share one Arc<Mutex<MemoryCacher<Duration, N>>>.
Threads == 1..NumThreads

\* No timer of either kind exists yet, nothing was offered, the mutex is free.
NoTimers ==
    /\ offered = <<>>
    /\ now = 0
    /\ stAlive = FALSE
    /\ stStart = 0
    /\ stDropped = 0
    /\ stExit = ""
    /\ tpc = [t \in Threads |-> "idle"]
    /\ tstart = [t \in Threads |-> 0]
    /\ telapsed = [t \in Threads |-> 0]
    /\ twaited = [t \in Threads |-> 0]
    /\ holder = 0
    /\ poisoned = FALSE

\* Coords values.
OutOfBounds == <<"OutOfBounds">>

InBounds(x, y) == <<"InBounds", x, y>>

\* No Coords value is in use.
NoCoords ==
    /\ MAX_WIDTH = 1
    /\ MAX_HEIGHT = 1
    /\ numT = "usize"
    /\ coord = OutOfBounds
    /\ cop = <<"none">>
    /\ cret = FALSE
    /\ cpath = <<>>
    /\ cpanic = ""

\* No TwoArray is in use.
NoArray ==
    /\ afn = "coord"
    /\ backing = <<>>
    /\ fcalls = <<>>
    /\ aphase = "none"
    /\ itpos = OutOfBounds
    /\ itout = <<>>
    /\ itlast = <<>>
    /\ apanic = ""

\* The relative paths the callers ask for, and the bound on the calls of
\* the texture loader per path.
NumPaths == 2
MaxLoads == 3
Paths == 1..NumPaths

NoTexture == <<>>

\* HashMap::new(), nothing asked for yet.
NoAssets ==
    /\ assets = [p \in Paths |-> NoTexture]
    /\ attempts = [p \in Paths |-> 0]
    /\ okLoads = [p \in Paths |-> 0]
    /\ alast = <<"new">>

\* Only a MemoryCacher (and its timers) is in use.
NoOthers == NoCoords /\ NoArray /\ NoAssets

\* A container fresh from new(n, t), for the given capacities, gates and
\* builds.
InitCacher(capacities, gates, builds) ==
    /\ \E n \in capacities, t \in gates : new(n, t) /\ newArgs = <<n, t>>
    /\ overflowChecks \in builds
    /\ lastTrace = <<>>
    /\ count = 0
    /\ panicMsg = ""
    /\ phase = "live"
    /\ lastOp = "new"
    /\ ret = <<>>
    /\ lastCan = TRUE
    /\ pushed = <<>>
    /\ pushCalls = 0
    /\ canDoCalls = 0
    /\ updateTimerCalls = 0
    /\ droppedUninit = FALSE
    /\ readUninit = FALSE

\* A MemoryCacher used directly: no scoped timer exists.
Init ==
    /\ InitCacher(0..MaxN, Timers, BOOLEAN)
    /\ NoTimers
    /\ NoOthers
    /\ tracing = FALSE

\* -------------------------------------------------------------------- push
CanPushIgnoringGate(ans) == TRUE

\* let can = if let Some(t) = &mut self.timer { t.can_do() } else { true };
CanPush(ans) == IF timer # "None" THEN ans ELSE TRUE

WriteSlotNext(d, i, t) == [d EXCEPT ![(i + 1) % N] = t]

\* self.data[self.index].write(t);
WriteSlot(d, i, t) == [d EXCEPT ![i] = t]

NextIndexNoWrap(i) == i + 1

NextIndexStuck(i) == IF i + 1 < N THEN i + 1 ELSE i

\* self.index = (self.index + 1) % N;
NextIndex(i) == (i + 1) % N

NextFullNever(f, i) == f

\* if self.index == N - 1 { self.full = true; }   (index already advanced)
NextFull(f, i) == IF i = N - 1 THEN TRUE ELSE f

TimerUpdatesAlways(can) == IF timer # "None" THEN 1 ELSE 0

\* if let Some(t) = &mut self.timer { t.update_timer(); }   (inside `if can`)
TimerUpdates(can) == IF can /\ timer # "None" THEN 1 ELSE 0

\* The question push puts to the gate, if there is one.
GateAsk == IF timer # "None" THEN <<"can_do">> ELSE <<>>

PushEventsTimerFirst(can, wasFull) ==
    GateAsk
    \o (IF TimerUpdates(can) = 1 THEN <<"update_timer">> ELSE <<>>)
    \o (IF can THEN (IF wasFull THEN <<"drop">> ELSE <<>>) \o <<"write", "advance">>
               ELSE <<>>)

\* The steps of one push that does not panic, in the order the code takes them.
PushEvents(can, wasFull) ==
    GateAsk
    \o (IF can THEN (IF wasFull THEN <<"drop">> ELSE <<>>) \o <<"write", "advance">>
               ELSE <<>>)
    \o (IF TimerUpdates(can) = 1 THEN <<"update_timer">> ELSE <<>>)

\* MemoryCacher::push(t); ans is what can_do() answers if it is asked.
push(t, ans) ==
    /\ phase = "live"
    /\ pushCalls < MaxPushes
    /\ pushCalls' = pushCalls + 1
    /\ canDoCalls' = canDoCalls + (IF timer # "None" THEN 1 ELSE 0)
    /\ lastOp' = "push"
    /\ ret' = <<>>
    /\ LET can == CanPush(ans) IN
       /\ lastCan' = can
       /\ updateTimerCalls' = updateTimerCalls
                              + (IF can /\ index >= N THEN 0 ELSE TimerUpdates(can))
       /\ lastTrace' = IF can /\ index >= N THEN GateAsk ELSE PushEvents(can, full)
       /\ IF ~can
          THEN UNCHANGED <<data, full, index, pushed, droppedUninit, phase, panicMsg>>
          ELSE IF index >= N
          THEN \* self.data[self.index]: index out of bounds, the thread panics
               /\ phase' = "panicked"
               /\ panicMsg' = "index out of bounds"
               /\ UNCHANGED <<data, full, index, pushed, droppedUninit>>
          ELSE \* assume_init_drop: T is Copy, so the drop itself does nothing
               /\ panicMsg' = panicMsg
               /\ droppedUninit' = (droppedUninit \/ (full /\ data[index] = Uninit))
               /\ data' = WriteSlot(data, index, t)
               /\ index' = NextIndex(index)
               /\ full' = NextFull(full, NextIndex(index))
               /\ pushed' = Append(pushed, t)
               /\ phase' = phase
    /\ UNCHANGED <<N, timer, readUninit, newArgs, overflowChecks, count>>

\* -------------------------------------------------------------------- reads
\* MemoryCacher::is_empty
is_empty == ~full /\ index = 0

\* let end_index = if self.full { N } else { self.index };
EndIndex == IF full THEN N ELSE index

\* The slots self.data[0..end_index] that get_all / get_all_copy read.
ReadSlots == IF is_empty THEN {} ELSE 0..(EndIndex - 1)

\* assume_init_read on a slot: its value, or any value when never written.
AssumeInitRead(v) == IF v = Uninit THEN Values ELSE {v}

\* The vectors get_all / get_all_copy can return in the current state.
ReadResults ==
    IF is_empty THEN {<<>>}
    ELSE {s \in [1..EndIndex -> Values] :
            \A i \in 1..EndIndex : s[i] \in AssumeInitRead(data[i - 1])}

get_all_copy_draining ==
    /\ phase = "live"
    /\ \E s \in ReadResults : ret' = s
    /\ lastOp' = "get_all_copy"
    /\ readUninit' = (readUninit \/ \E i \in ReadSlots : data[i] = Uninit)
    /\ index' = 0
    /\ full' = FALSE
    /\ UNCHANGED <<N, data, timer, phase, lastCan, pushed,
                   pushCalls, canDoCalls, updateTimerCalls, droppedUninit,
                   lastTrace, newArgs, overflowChecks, count, panicMsg>>

\* MemoryCacher::get_all_copy(&self)
get_all_copy ==
    /\ phase = "live"
    /\ \E s \in ReadResults : ret' = s
    /\ lastOp' = "get_all_copy"
    /\ readUninit' = (readUninit \/ \E i \in ReadSlots : data[i] = Uninit)
    /\ UNCHANGED <<N, data, full, index, timer, phase, lastCan, pushed,
                   pushCalls, canDoCalls, updateTimerCalls, droppedUninit,
                   lastTrace, newArgs, overflowChecks, count, panicMsg>>

GetAllResultsToIndex ==
    IF is_empty THEN {<<>>}
    ELSE LET end_index == index IN
         {s \in [1..end_index -> Values] :
            \A i \in 1..end_index : s[i] \in AssumeInitRead(data[i - 1])}

\* The vectors get_all(self) can return in the current state:
\* self.data[0..end_index].into_iter().map(assume_init_read).collect()
GetAllResults ==
    IF is_empty THEN {<<>>}
    ELSE LET end_index == IF full THEN N ELSE index IN
         {s \in [1..end_index -> Values] :
            \A i \in 1..end_index : s[i] \in AssumeInitRead(data[i - 1])}

\* MemoryCacher::get_all(self): the container is gone afterwards.
get_all ==
    /\ phase = "live"
    /\ \E s \in GetAllResults : ret' = s
    /\ lastOp' = "get_all"
    /\ phase' = "consumed"
    /\ readUninit' = (readUninit \/ \E i \in ReadSlots : data[i] = Uninit)
    /\ UNCHANGED <<N, data, full, index, timer, lastCan, pushed,
                   pushCalls, canDoCalls, updateTimerCalls, droppedUninit,
                   lastTrace, newArgs, overflowChecks, count, panicMsg>>

\* IntoIterator::into_iter(self): self.get_all().into_iter()
into_iter ==
    /\ phase = "live"
    /\ \E s \in GetAllResults : ret' = s
    /\ lastOp' = "into_iter"
    /\ phase' = "consumed"
    /\ readUninit' = (readUninit \/ \E i \in ReadSlots : data[i] = Uninit)
    /\ UNCHANGED <<N, data, full, index, timer, lastCan, pushed,
                   pushCalls, canDoCalls, updateTimerCalls, droppedUninit,
                   lastTrace, newArgs, overflowChecks, count, panicMsg>>

\* A call of MemoryCacher::is_empty(&self).
call_is_empty ==
    /\ phase = "live"
    /\ ret' = <<is_empty>>
    /\ lastOp' = "is_empty"
    /\ UNCHANGED <<N, data, full, index, timer, phase, lastCan, pushed,
                   pushCalls, canDoCalls, updateTimerCalls, droppedUninit,
                   readUninit, lastTrace, newArgs, overflowChecks, count, panicMsg>>

\* ----------------------------------------------------------------- averages
\* The integer type has the values 0..IntMax; wrapping arithmetic is modulo
\* IntMax + 1.
Modulus == IntMax + 1

\* for el in self.get_all_copy() { total += el; count += 1; }
\* The loop over s[k..], from the running total and count; overflowed names
\* the first statement whose addition left 0..IntMax ("" while none did):
\* in each iteration total += el runs before count += 1.
RECURSIVE AverageLoop(_, _, _, _, _)
AverageLoop(s, k, total, cnt, overflowed) ==
    IF k > Len(s)
    THEN [total |-> total, count |-> cnt, overflowed |-> overflowed]
    ELSE AverageLoop(s, k + 1,
                     (total + s[k]) % Modulus,
                     (cnt + 1) % Modulus,
                     IF overflowed # "" THEN overflowed
                     ELSE IF total + s[k] > IntMax THEN "total += el"
                     ELSE IF cnt + 1 > IntMax THEN "count += 1"
                     ELSE "")

\* let mut total = T::default(); let mut count = 0; and the loop.
AverageTotals(s) == AverageLoop(s, 1, 0, 0, "")

\* MemoryCacher::average_u8 (and the other integer widths): T = $t, unsigned.
average ==
    /\ phase = "live"
    /\ lastOp' = "average"
    /\ IF is_empty
       THEN \* return T::Output::default();
            /\ ret' = <<0>>
            /\ count' = 0
            /\ UNCHANGED <<phase, panicMsg, readUninit>>
       ELSE /\ readUninit' = (readUninit \/ \E i \in ReadSlots : data[i] = Uninit)
            /\ \E s \in ReadResults :
                 LET r == AverageTotals(s) IN
                 IF overflowChecks /\ r.overflowed # ""
                 THEN \* the panic names the statement that overflowed
                      /\ phase' = "panicked"
                      /\ panicMsg' = IF r.overflowed = "total += el"
                                     THEN "attempt to add with overflow: total += el"
                                     ELSE "attempt to add with overflow: count += 1"
                      /\ ret' = <<>>
                      /\ count' = 0
                 ELSE /\ count' = r.count
                      /\ IF r.count = 0
                         THEN /\ phase' = "panicked"
                              /\ panicMsg' = "attempt to divide by zero"
                              /\ ret' = <<>>
                         ELSE \* total / count
                              /\ ret' = <<r.total \div r.count>>
                              /\ UNCHANGED <<phase, panicMsg>>
    /\ UNCHANGED <<N, data, full, index, timer, lastCan, pushed,
                   pushCalls, canDoCalls, updateTimerCalls, droppedUninit,
                   lastTrace, newArgs, overflowChecks>>

\* ---------------------------------------------------------- specification
timerVars == <<offered, scopedVars, threadVars, tracing, otherVars>>

Next ==
    \/ (\E t \in Values, ans \in CanDoAnswers : push(t, ans)) /\ UNCHANGED timerVars
    \/ get_all_copy /\ UNCHANGED timerVars
    \/ get_all /\ UNCHANGED timerVars
    \/ into_iter /\ UNCHANGED timerVars
    \/ call_is_empty /\ UNCHANGED timerVars
    \/ average /\ UNCHANGED timerVars

Spec == Init /\ [][Next]_vars

\* ------------------------------------------------- a gated container, traced
\* A push call whose value and gate answer are recorded in `offered`.
offer(t, ans) ==
    /\ Len(offered) < MaxOffers
    /\ push(t, ans)
    /\ offered' = Append(offered, <<t, ans>>)
    /\ UNCHANGED <<scopedVars, threadVars, tracing, otherVars>>

\* Capacities of at least one slot (N = 0 panics on the first accepted push).
InitGate ==
    /\ InitCacher(1..MaxN, Timers, {FALSE})
    /\ NoTimers
    /\ NoOthers
    /\ tracing = FALSE

NextGate ==
    \/ \E t \in Values, ans \in CanDoAnswers : offer(t, ans)
    \/ get_all_copy /\ UNCHANGED timerVars

SpecGate == InitGate /\ [][NextGate]_vars

\* ------------------------------------------------------ ScopedToListTimer
\* Time passes: Instant::now() reads one more. A thread blocked in
\* Mutex::lock spends the tick waiting. Durations are the element type of
\* the container, so the clock runs over Values.
Blocked(t) == tpc[t] = "captured" /\ holder # 0

Tick ==
    /\ now < MaxVal
    /\ now' = now + 1
    /\ twaited' = [t \in Threads |-> twaited[t] + (IF Blocked(t) THEN 1 ELSE 0)]
    /\ UNCHANGED <<cacherVars, offered, stAlive, stStart, stDropped, stExit,
                   tpc, tstart, telapsed, holder, poisoned, tracing, otherVars>>

\* Instant::elapsed(): the time since `start`.
Elapsed(start) == now - start

\* The ways a scope can be left.
ExitPaths == {"return", "early return", "unwind"}

\* ScopedToListTimer::new(t): Self(t, Instant::now()). The timer holds the
\* only &mut to the container while it is alive.
st_new ==
    /\ ~stAlive
    /\ phase = "live"
    /\ pushCalls < MaxPushes
    /\ stAlive' = TRUE
    /\ stStart' = now
    /\ UNCHANGED <<cacherVars, offered, now, stDropped, stExit, threadVars, tracing, otherVars>>

st_drop_silent_on_unwind(path, ans) ==
    /\ stAlive
    /\ IF path = "unwind"
       THEN phase = "live" /\ UNCHANGED cacherVars
       ELSE push(Elapsed(stStart), ans)
    /\ stAlive' = FALSE
    /\ stDropped' = stDropped + 1
    /\ stExit' = path
    /\ UNCHANGED <<offered, now, stStart, threadVars, tracing, otherVars>>

\* Drop for ScopedToListTimer: self.0.push(self.1.elapsed()), run when the
\* owning scope is left along `path`.
st_drop(path, ans) ==
    /\ stAlive
    /\ push(Elapsed(stStart), ans)
    /\ stAlive' = FALSE
    /\ stDropped' = stDropped + 1
    /\ stExit' = path
    /\ UNCHANGED <<offered, now, stStart, threadVars, tracing, otherVars>>

InitScoped ==
    /\ InitCacher(0..MaxN, Timers, {FALSE})
    /\ NoTimers
    /\ NoOthers
    /\ tracing = FALSE

NextScoped ==
    \/ Tick
    \/ st_new
    \/ \E path \in ExitPaths, ans \in CanDoAnswers : st_drop(path, ans)

SpecScoped == InitScoped /\ [][NextScoped]_vars

\* ------------------------------------------- ThreadSafeScopedToListTimer
\* tpc[t] is where thread t is with its timer:
\*   "idle"      no timer yet
\*   "running"   the timer is alive
\*   "captured"  in drop: `elapsed` is taken, the thread is in Mutex::lock
\*   "locked"    in drop: the thread holds the MutexGuard
\*   "pushed"    in drop: lock.push(elapsed) has returned
\*   "unwinding" in drop: lock.push(elapsed) panicked, the guard is still held
\*   "done"      drop returned
\*   "panicked"  the thread panicked
\*   "exited"    the thread called std::process::exit(1)
\* std::process::exit ends every thread of the process.
Exited == \E t \in Threads : tpc[t] = "exited"

\* ThreadSafeScopedToListTimer::new(t): Self(t, Instant::now())
ts_new(t) ==
    /\ ~Exited
    /\ tpc[t] = "idle"
    /\ tpc' = [tpc EXCEPT ![t] = "running"]
    /\ tstart' = [tstart EXCEPT ![t] = now]
    /\ UNCHANGED <<cacherVars, offered, scopedVars, telapsed, twaited, holder,
                   poisoned, tracing, otherVars>>

\* drop: let elapsed = self.1.elapsed();
ts_capture(t) ==
    /\ ~Exited
    /\ tpc[t] = "running"
    /\ tpc' = [tpc EXCEPT ![t] = "captured"]
    /\ telapsed' = [telapsed EXCEPT ![t] = Elapsed(tstart[t])]
    /\ UNCHANGED <<cacherVars, offered, scopedVars, tstart, twaited, holder,
                   poisoned, tracing, otherVars>>

CanAcquireAlways(t) == TRUE

\* Mutex::lock returns to thread t only once no other guard exists.
CanAcquire(t) == holder = 0

LockResultNeverErr == FALSE

\* Mutex::lock returns Err(PoisonError) when the mutex is poisoned.
LockResultIsErr == poisoned

\* How a failed lock ends the drop: .expect(..) panics; lock_panic ends in
\* unwrap_log_error, which panics or calls std::process::exit(1) depending
\* on the implementation compiled in.
FatalOutcomes == IF tracing THEN {"panicked", "exited"} ELSE {"panicked"}

ts_try_lock(t) ==
    /\ ~Exited
    /\ tpc[t] = "captured"
    /\ IF ~CanAcquire(t)
       THEN /\ tpc' = [tpc EXCEPT ![t] = "done"]
            /\ UNCHANGED holder
       ELSE IF LockResultIsErr
       THEN /\ \E o \in FatalOutcomes : tpc' = [tpc EXCEPT ![t] = o]
            /\ UNCHANGED holder
       ELSE /\ tpc' = [tpc EXCEPT ![t] = "locked"]
            /\ holder' = t
    /\ UNCHANGED <<cacherVars, offered, scopedVars, tstart, telapsed, twaited,
                   poisoned, tracing, otherVars>>

\* drop: let mut lock = self.0.lock().expect(..) / self.0.lock_panic(..);
\* On a poisoned mutex the guard inside the error is dropped at once and the
\* thread ends fatally.
ts_lock(t) ==
    /\ ~Exited
    /\ tpc[t] = "captured"
    /\ CanAcquire(t)
    /\ IF LockResultIsErr
       THEN /\ \E o \in FatalOutcomes : tpc' = [tpc EXCEPT ![t] = o]
            /\ UNCHANGED holder
       ELSE /\ tpc' = [tpc EXCEPT ![t] = "locked"]
            /\ holder' = t
    /\ UNCHANGED <<cacherVars, offered, scopedVars, tstart, telapsed, twaited,
                   poisoned, tracing, otherVars>>

DropElapsedAfterLock(t) == Elapsed(tstart[t])

\* The argument of lock.push(elapsed): the local taken before the lock.
DropElapsed(t) == telapsed[t]

\* drop: lock.push(elapsed);
ts_push(t, ans) ==
    /\ ~Exited
    /\ tpc[t] = "locked"
    /\ push(DropElapsed(t), ans)
    /\ tpc' = [tpc EXCEPT ![t] = IF phase' = "panicked" THEN "unwinding"
                                                       ELSE "pushed"]
    /\ UNCHANGED <<offered, scopedVars, tstart, telapsed, twaited, holder,
                   poisoned, tracing, otherVars>>

HolderAfterUnlockKept == holder

\* MutexGuard::drop unlocks the mutex.
HolderAfterUnlock == 0

\* drop: end of scope, the MutexGuard `lock` is dropped; dropped while the
\* thread is panicking, it poisons the mutex.
ts_unlock(t) ==
    /\ ~Exited
    /\ tpc[t] \in {"pushed", "unwinding"}
    /\ holder' = HolderAfterUnlock
    /\ poisoned' = (poisoned \/ tpc[t] = "unwinding")
    /\ tpc' = [tpc EXCEPT ![t] = IF tpc[t] = "unwinding" THEN "panicked"
                                                         ELSE "done"]
    /\ UNCHANGED <<cacherVars, offered, scopedVars, tstart, telapsed, twaited,
                   tracing, otherVars>>

\* One step of thread t.
ThreadStep(t) ==
    \/ ts_new(t)
    \/ ts_capture(t)
    \/ ts_lock(t)
    \/ \E ans \in CanDoAnswers : ts_push(t, ans)
    \/ ts_unlock(t)

InitThreads ==
    /\ InitCacher(0..MaxN, Timers, {FALSE})
    /\ NoTimers
    /\ NoOthers
    /\ tracing \in BOOLEAN

NextThreads ==
    \/ \E t \in Threads : ThreadStep(t)
    \/ Tick

SpecThreads == InitThreads /\ [][NextThreads]_vars

\* Every thread that can take a step eventually takes one.
\* (Whether a drop gets through depends on the capacity only in that N = 0
\* makes push panic, so the capacities 0 and 1 stand for all; a gate that
\* never accepts behaves like one that happens not to; the `tracing` feature
\* matters only to how a poisoned lock ends the thread.)
InitThreadsFair ==
    /\ InitCacher({0, 1}, {"None", "Interval"}, {FALSE})
    /\ NoTimers
    /\ NoOthers
    /\ tracing = FALSE

SpecThreadsFair ==
    /\ InitThreadsFair
    /\ [][NextThreads]_vars
    /\ \A t \in Threads : WF_vars(ThreadStep(t))

\* ------------------------------------------------------------------ Coords
\* usize::MAX, cut down, but above every value a walk over the grid takes.
UsizeMax == 4 * (MaxDim + 1) * (MaxDim + 1)

\* The numeric types T explored: two narrow ones and two wide ones.
NumTypes == {"u8", "i8", "usize", "isize"}

TypeMax(ty) == IF ty \in {"u8", "i8"} THEN NarrowMax ELSE UsizeMax

TypeMin(ty) == IF ty \in {"u8", "usize"} THEN 0 ELSE 0 - TypeMax(ty) - 1

InType(ty, v) == TypeMin(ty) <= v /\ v <= TypeMax(ty)

\* v reduced into the range of ty, as wrapping arithmetic does.
Wrap(ty, v) ==
    TypeMin(ty) + ((v - TypeMin(ty)) % (TypeMax(ty) - TypeMin(ty) + 1))

\* T::try_from(n) for a usize n: the set holding the value, empty on Err.
TryFrom(ty, n) == IF n <= TypeMax(ty) THEN {n} ELSE {}

fromAnything(ty, x, y) == InBounds(x, y)

\* From<(T, T)>::from:
\*   if T::try_from(MAX_WIDTH).map_or(false, |mw| x >= mw)
\*      || T::try_from(MAX_HEIGHT).map_or(false, |mh| y >= mh)
\*   { OutOfBounds } else { InBounds(x, y) }
from(ty, x, y) ==
    IF \/ \E mw \in TryFrom(ty, MAX_WIDTH) : x >= mw
       \/ \E mh \in TryFrom(ty, MAX_HEIGHT) : y >= mh
    THEN OutOfBounds
    ELSE InBounds(x, y)

is_oob(c) == c = OutOfBounds

is_ib(c) == c[1] = "InBounds"

\* The outcome of an operator whose components came out as x and y before
\* being fitted into T: a result [c, panic], c kept when the thread panics.
Fitted(ty, c, x, y, msg) ==
    IF InType(ty, x) /\ InType(ty, y)
    THEN [c |-> from(ty, x, y), panic |-> ""]
    ELSE IF overflowChecks
    THEN [c |-> c, panic |-> msg]
    ELSE [c |-> from(ty, Wrap(ty, x), Wrap(ty, y)), panic |-> ""]

addReviving(ty, a, b) ==
    IF is_oob(a) /\ is_oob(b) THEN [c |-> OutOfBounds, panic |-> ""]
    ELSE IF is_oob(a) THEN [c |-> b, panic |-> ""]
    ELSE IF is_oob(b) THEN [c |-> a, panic |-> ""]
    ELSE Fitted(ty, a, a[2] + b[2], a[3] + b[3], "attempt to add with overflow")

\* Add::add
add(ty, a, b) ==
    IF is_oob(a) \/ is_oob(b) THEN [c |-> OutOfBounds, panic |-> ""]
    ELSE Fitted(ty, a, a[2] + b[2], a[3] + b[3], "attempt to add with overflow")

\* Sub::sub
sub(ty, a, b) ==
    IF is_oob(a) \/ is_oob(b) THEN [c |-> OutOfBounds, panic |-> ""]
    ELSE Fitted(ty, a, a[2] - b[2], a[3] - b[3], "attempt to subtract with overflow")

\* Mul<T>::mul
mul(ty, a, k) ==
    IF is_oob(a) THEN [c |-> OutOfBounds, panic |-> ""]
    ELSE Fitted(ty, a, a[2] * k, a[3] * k, "attempt to multiply with overflow")

\* Integer division of Rust: the quotient is rounded towards zero.
Quot(v, k) ==
    LET av == IF v < 0 THEN 0 - v ELSE v
        ak == IF k < 0 THEN 0 - k ELSE k
        q  == av \div ak
    IN  IF (v < 0) = (k < 0) THEN q ELSE 0 - q

\* Div<T>::div; dividing by zero, and MIN / -1, panic in every build.
div(ty, a, k) ==
    IF is_oob(a) THEN [c |-> OutOfBounds, panic |-> ""]
    ELSE IF k = 0 THEN [c |-> a, panic |-> "attempt to divide by zero"]
    ELSE IF ~InType(ty, Quot(a[2], k)) \/ ~InType(ty, Quot(a[3], k))
    THEN [c |-> a, panic |-> "attempt to divide with overflow"]
    ELSE [c |-> from(ty, Quot(a[2], k), Quot(a[3], k)), panic |-> ""]

\* MAX_WIDTH - 1 and MAX_HEIGHT - 1 in usize: the set holding the value,
\* empty when the subtraction panics (0 - 1 with overflow checks; without
\* them it wraps to usize::MAX).
UsizeMinusOne(n) ==
    IF n >= 1 THEN {n - 1}
    ELSE IF overflowChecks THEN {} ELSE {UsizeMax}

\* *cx += T::one() / *cy += T::one(): the set holding the value, empty when
\* the addition panics.
PlusOne(ty, v) ==
    IF InType(ty, v + 1) THEN {v + 1}
    ELSE IF overflowChecks THEN {} ELSE {Wrap(ty, v + 1)}

incrementWrappingAround(ty, c) ==
    IF is_oob(c) THEN [c |-> InBounds(0, 0), ret |-> TRUE, panic |-> ""]
    ELSE [c |-> c, ret |-> TRUE, panic |-> ""]

incrementColumnFirst(ty, c) ==
    IF is_oob(c) THEN [c |-> c, ret |-> FALSE, panic |-> ""]
    ELSE IF c[3] + 1 < MAX_HEIGHT THEN [c |-> InBounds(c[2], c[3] + 1), ret |-> TRUE, panic |-> ""]
    ELSE IF c[2] + 1 < MAX_WIDTH THEN [c |-> InBounds(c[2] + 1, 0), ret |-> TRUE, panic |-> ""]
    ELSE [c |-> OutOfBounds, ret |-> FALSE, panic |-> ""]

\* Coords::increment(&mut self) -> bool, as a result [c, ret, panic].
increment(ty, c) ==
    IF is_oob(c)
    THEN \* oob = true; nothing to match; return !oob
         [c |-> c, ret |-> FALSE, panic |-> ""]
    ELSE LET cx == c[2]
             cy == c[3]
         IN
         IF UsizeMinusOne(MAX_WIDTH) = {}
         THEN [c |-> c, ret |-> FALSE, panic |-> "attempt to subtract with overflow"]
         ELSE IF \E w1 \in UsizeMinusOne(MAX_WIDTH) :
                    \E mw \in TryFrom(ty, w1) : cx >= mw
         THEN IF UsizeMinusOne(MAX_HEIGHT) = {}
              THEN [c |-> c, ret |-> FALSE, panic |-> "attempt to subtract with overflow"]
              ELSE IF \E h1 \in UsizeMinusOne(MAX_HEIGHT) :
                         \E mh \in TryFrom(ty, h1) : cy >= mh
              THEN \* oob = true; *self = OutOfBounds
                   [c |-> OutOfBounds, ret |-> FALSE, panic |-> ""]
              ELSE \* *cx = T::zero(); *cy += T::one();
                   IF PlusOne(ty, cy) = {}
                   THEN [c |-> InBounds(0, cy), ret |-> FALSE,
                         panic |-> "attempt to add with overflow"]
                   ELSE [c |-> InBounds(0, CHOOSE v \in PlusOne(ty, cy) : TRUE),
                         ret |-> TRUE, panic |-> ""]
         ELSE \* *cx += T::one();
              IF PlusOne(ty, cx) = {}
              THEN [c |-> c, ret |-> FALSE, panic |-> "attempt to add with overflow"]
              ELSE [c |-> InBounds(CHOOSE v \in PlusOne(ty, cx) : TRUE, cy),
                    ret |-> TRUE, panic |-> ""]

\* The component values explored: an operation whose result lies further
\* out is not followed.
Explored(c) ==
    IF is_oob(c) THEN TRUE
    ELSE /\ 0 - MaxDim - 1 <= c[2] /\ c[2] <= MaxDim + 1
         /\ 0 - MaxDim - 1 <= c[3] /\ c[3] <= MaxDim + 1

\* The longest walk recorded in `cpath`: longer than any walk over a grid.
MaxPath == (MaxDim + 1) * (MaxDim + 1)

\* The component and scalar operands tried.
Operands(ty) == {v \in (0 - 2)..(MaxDim + 1) : InType(ty, v)}

\* The Coords operands tried: OutOfBounds and what from() makes of a pair.
CoordOperands(ty) ==
    {OutOfBounds} \cup {from(ty, x, y) : x, y \in Operands(ty)}

\* One Coords operation `name` with outcome r taking effect on `coord`;
\* rhsOob tells whether its right operand was OutOfBounds.
CoordsStep(name, rhsOob, r) ==
    /\ cpanic = ""
    /\ Explored(r.c)
    /\ coord' = r.c
    /\ cpanic' = r.panic
    /\ cop' = <<name, rhsOob>>
    /\ cret' = FALSE
    /\ cpath' = <<>>
    /\ UNCHANGED <<MAX_WIDTH, MAX_HEIGHT, numT>>
    /\ UNCHANGED <<cacherVars, offered, scopedVars, threadVars, tracing, arrayVars, assetVars>>

\* Default::default(): InBounds(T::zero(), T::zero())
coords_default ==
    /\ cpanic = ""
    /\ coord' = InBounds(0, 0)
    /\ cop' = <<"default", FALSE>>
    /\ cret' = FALSE
    /\ cpath' = <<[c |-> InBounds(0, 0), ret |-> TRUE]>>
    /\ UNCHANGED <<MAX_WIDTH, MAX_HEIGHT, numT, cpanic>>
    /\ UNCHANGED <<cacherVars, offered, scopedVars, threadVars, tracing, arrayVars, assetVars>>

\* coord = Coords::from((x, y))
coords_from(x, y) ==
    CoordsStep("from", FALSE, [c |-> from(numT, x, y), panic |-> ""])

\* coord = coord + b, and the other operators
coords_add(b) == CoordsStep("add", is_oob(b), add(numT, coord, b))

coords_sub(b) == CoordsStep("sub", is_oob(b), sub(numT, coord, b))

coords_mul(k) == CoordsStep("mul", FALSE, mul(numT, coord, k))

coords_div(k) == CoordsStep("div", FALSE, div(numT, coord, k))

\* coord.increment()
coords_increment ==
    LET r == increment(numT, coord) IN
    /\ cpanic = ""
    /\ Explored(r.c)
    /\ coord' = r.c
    /\ cpanic' = r.panic
    /\ cop' = <<"increment", FALSE>>
    /\ cret' = r.ret
    /\ cpath' = IF cpath = <<>> \/ Len(cpath) > MaxPath THEN <<>>
                ELSE Append(cpath, [c |-> r.c, ret |-> r.ret])
    /\ UNCHANGED <<MAX_WIDTH, MAX_HEIGHT, numT>>
    /\ UNCHANGED <<cacherVars, offered, scopedVars, threadVars, tracing, arrayVars, assetVars>>

\* The MemoryCacher variables at rest: only `overflowChecks`, the build,
\* matters to the other types.
CacherUnused ==
    /\ InitCacher({1}, {"None"}, BOOLEAN)
    /\ NoTimers
    /\ tracing = FALSE

InitCoords ==
    /\ CacherUnused
    /\ MAX_WIDTH \in 0..MaxDim
    /\ MAX_HEIGHT \in 0..MaxDim
    /\ numT \in NumTypes
    /\ coord = InBounds(0, 0)
    /\ cop = <<"default", FALSE>>
    /\ cret = FALSE
    /\ cpath = <<[c |-> InBounds(0, 0), ret |-> TRUE]>>
    /\ cpanic = ""
    /\ NoArray
    /\ NoAssets

NextCoords ==
    \/ coords_default
    \/ \E x, y \in Operands(numT) : coords_from(x, y)
    \/ \E b \in CoordOperands(numT) : coords_add(b)
    \/ \E b \in CoordOperands(numT) : coords_sub(b)
    \/ \E k \in Operands(numT) : coords_mul(k)
    \/ \E k \in Operands(numT) : coords_div(k)
    \/ coords_increment

SpecCoords == InitCoords /\ [][NextCoords]_vars

\* ---------------------------------------------------------------- TwoArray
\* ArrayCoords<W, H> = Coords<usize, W, H>; W and H are MAX_WIDTH and
\* MAX_HEIGHT.
\* The functions f tried: the coordinate itself (tests::order_from_fn_test),
\* a number computed from it (tests::index_iter_test), a constant.
ArrayFns == {"coord", "number", "zero"}

Apply(f, c) ==
    IF f = "coord" THEN c
    ELSE IF f = "zero" THEN 0
    ELSE IF is_oob(c) THEN 0 ELSE c[2] * 3 + c[3]

\* Coords::to_usize for T = usize: the set holding the index, empty for None.
to_usize(c) ==
    IF is_oob(c) THEN {}
    ELSE {c[3] * mw + c[2] : mw \in TryFrom("usize", MAX_WIDTH)}

\* while index.increment() { backing.push(f(index)); }  from `idx`, with
\* backing b and the calls of f so far; given up after MaxPath rounds.
RECURSIVE FromFunctionLoop(_, _, _, _)
FromFunctionLoop(f, idx, b, calls) ==
    LET r == increment("usize", idx) IN
    IF r.panic # ""
    THEN [phase |-> "panicked", backing |-> b, calls |-> calls, panic |-> r.panic]
    ELSE IF ~r.ret
    THEN [phase |-> "built", backing |-> b, calls |-> calls, panic |-> ""]
    ELSE IF Len(b) >= MaxPath
    THEN [phase |-> "unfinished", backing |-> b, calls |-> calls, panic |-> ""]
    ELSE FromFunctionLoop(f, r.c, Append(b, Apply(f, r.c)), Append(calls, r.c))

FromFunctionSkippingFirst(f) ==
    FromFunctionLoop(f, InBounds(0, 0), <<>>, <<>>)

\* TwoArray::from_function(f):
\*   let mut index = ArrayCoords::default(); backing.push(f(index)); loop
FromFunction(f) ==
    FromFunctionLoop(f, InBounds(0, 0),
                     <<Apply(f, InBounds(0, 0))>>, <<InBounds(0, 0)>>)

array_from_function(f) ==
    /\ aphase = "none"
    /\ LET r == FromFunction(f) IN
       /\ afn' = f
       /\ aphase' = r.phase
       /\ backing' = r.backing
       /\ fcalls' = r.calls
       /\ apanic' = r.panic
    /\ UNCHANGED <<itpos, itout, itlast>>
    /\ UNCHANGED <<cacherVars, offered, scopedVars, threadVars, tracing, coordVars, assetVars>>

\* IntoIterator::into_iter: current_position: ArrayCoords::InBounds(0, 0)
array_into_iter ==
    /\ aphase = "built"
    /\ aphase' = "iterating"
    /\ itpos' = InBounds(0, 0)
    /\ UNCHANGED <<afn, backing, fcalls, itout, itlast, apanic>>
    /\ UNCHANGED <<cacherVars, offered, scopedVars, threadVars, tracing, coordVars, assetVars>>

NextItemStaying(pos) == pos

\* self.current_position.increment(): the position next() moves on to.
NextItemPosition(pos) == increment("usize", pos).c

\* Iterator::next for TwoArrayIterator
iter_next ==
    /\ aphase = "iterating"
    /\ Len(itout) <= MaxPath
    /\ IF is_oob(itpos)
       THEN \* return None;
            /\ itlast' = <<"None">>
            /\ UNCHANGED <<itpos, itout, aphase, apanic>>
       ELSE LET i == CHOOSE v \in to_usize(itpos) \cup {0} :
                        to_usize(itpos) # {} => v \in to_usize(itpos)
            IN  IF i >= Len(backing)
                THEN \* self.backing[..]: index out of bounds
                     /\ aphase' = "panicked"
                     /\ apanic' = "index out of bounds"
                     /\ UNCHANGED <<itpos, itout, itlast>>
                ELSE IF increment("usize", itpos).panic # ""
                THEN /\ aphase' = "panicked"
                     /\ apanic' = increment("usize", itpos).panic
                     /\ UNCHANGED <<itpos, itout, itlast>>
                ELSE /\ itlast' = <<"Some", backing[i + 1], itpos>>
                     /\ itout' = Append(itout, <<backing[i + 1], itpos>>)
                     /\ itpos' = NextItemPosition(itpos)
                     /\ UNCHANGED <<aphase, apanic>>
    /\ UNCHANGED <<afn, backing, fcalls>>
    /\ UNCHANGED <<cacherVars, offered, scopedVars, threadVars, tracing, coordVars, assetVars>>

InitArray ==
    /\ CacherUnused
    /\ MAX_WIDTH \in 0..MaxDim
    /\ MAX_HEIGHT \in 0..MaxDim
    /\ numT = "usize"
    /\ coord = OutOfBounds
    /\ cop = <<"none">>
    /\ cret = FALSE
    /\ cpath = <<>>
    /\ cpanic = ""
    /\ NoArray
    /\ NoAssets

NextArray ==
    \/ \E f \in ArrayFns : array_from_function(f)
    \/ array_into_iter
    \/ iter_next

SpecArray == InitArray /\ [][NextArray]_vars

\* ------------------------------------------------------------------ Cacher
\* piston_cache::Cacher. Texture::from_path belongs to piston_window: what it
\* returns for a path is an input, Ok(tex) or Err(e), at every call.
LoaderOutcomes == {"Ok", "Err"}

contains_keyNever(a, p) == FALSE

\* self.assets.contains_key(p)
contains_key(a, p) == a[p] # NoTexture

\* The texture the k-th call of the loader makes for path p.
Tex(p, k) == <<"tex", p, k>>

AssetsClearedOnErr(a) == [q \in Paths |-> NoTexture]

\* Err(e) => Err(e): the map after a failed load.
AssetsAfterErr(a) == a

\* Cacher::base_insert(p) with the loader answering `load`:
\* the map, the result, and whether the loader was called.
base_insert(a, p, k, load) ==
    IF contains_key(a, p)
    THEN [assets |-> a, result |-> <<"Ok">>, loaded |-> FALSE]
    ELSE IF load = "Ok"
    THEN [assets |-> [a EXCEPT ![p] = Tex(p, k + 1)],
          result |-> <<"Ok">>, loaded |-> TRUE]
    ELSE [assets |-> AssetsAfterErr(a), result |-> <<"Err", "e">>, loaded |-> TRUE]

\* Cacher::base_get(p)
base_get(a, p, k, load) ==
    LET r == base_insert(a, p, k, load) IN
    IF r.result[1] = "Ok"
    THEN [r EXCEPT !.result =
              IF r.assets[p] # NoTexture
              THEN <<"Ok", r.assets[p]>>
              ELSE <<"Err", "Asset missing in internal storage">>]
    ELSE r

\* What one call does to the cache and the history.
CacherCall(name, p, load, r) ==
    /\ r.loaded => attempts[p] < MaxLoads
    /\ assets' = r.assets
    /\ attempts' = [attempts EXCEPT ![p] = @ + (IF r.loaded THEN 1 ELSE 0)]
    /\ okLoads' = [okLoads EXCEPT
                       ![p] = @ + (IF r.loaded /\ load = "Ok" THEN 1 ELSE 0)]
    /\ alast' = <<name, p,
                  IF r.result[1] = "Ok" THEN r.result
                  ELSE <<"Err", (IF name = "get" THEN "Texture Get Error: "
                                 ELSE "Texture Insert Error: ") \o r.result[2]>> >>
    /\ UNCHANGED <<cacherVars, offered, scopedVars, threadVars, tracing,
                   coordVars, arrayVars>>

\* Cacher::insert(p)
insert(p, load) ==
    CacherCall("insert", p, load, base_insert(assets, p, attempts[p], load))

\* Cacher::get(p)
get(p, load) ==
    CacherCall("get", p, load, base_get(assets, p, attempts[p], load))

InitAssets ==
    /\ CacherUnused
    /\ NoCoords
    /\ NoArray
    /\ NoAssets

NextAssets ==
    \/ \E p \in Paths, load \in LoaderOutcomes : insert(p, load)
    \/ \E p \in Paths, load \in LoaderOutcomes : get(p, load)

SpecAssets == InitAssets /\ [][NextAssets]_vars

\* ------------------------------------------------------------------ claims
\* The slot of N-slot circular storage that holds position p (1-based) of a
\* history, and the newest position of history h stored in slot i.
SlotOf(p) == (p - 1) % N

NewestAt(h, i) ==
    CHOOSE p \in 1..Len(h) :
        /\ SlotOf(p) = i
        /\ \A q \in 1..Len(h) : SlotOf(q) = i => q <= p

\* C1: with no gate, after k accepted pushes, 1 <= k < N, the container is
\* not empty and get_all_copy() returns exactly the k pushed values in push
\* order.
C1_PartialFillSnapshot ==
    (N > 0 /\ timer = "None" /\ Len(pushed) >= 1 /\ Len(pushed) < N)
        => /\ ~is_empty
           /\ lastOp = "get_all_copy" => ret = pushed

\* C2: after exactly N accepted pushes full is true and get_all_copy()
\* returns the N pushed values in push order.
C2_ExactFillSnapshot ==
    (N > 0 /\ Len(pushed) = N)
        => /\ full
           /\ lastOp = "get_all_copy" => ret = pushed

C2_Witness ==
    /\ N >= 2
    /\ Len(pushed) = N
    /\ lastOp = "get_all_copy"
    /\ ret = pushed

\* C3: with no gate, after more than N accepted pushes get_all_copy() has
\* length N, slot i holds the newest pushed value whose 0-based position is
\* congruent to i modulo N, and the slots together hold the last N values.
C3_OverfillStorageOrder ==
    (N > 0 /\ timer = "None" /\ Len(pushed) > N /\ lastOp = "get_all_copy")
        => /\ Len(ret) = N
           /\ \A i \in 0..(N - 1) : ret[i + 1] = pushed[NewestAt(pushed, i)]
           /\ \A p \in (Len(pushed) - N + 1)..Len(pushed) :
                  ret[SlotOf(p) + 1] = pushed[p]

C3_Witness ==
    /\ N >= 2
    /\ timer = "None"
    /\ Len(pushed) >= N + 2
    /\ lastOp = "get_all_copy"
    /\ ret[1] # ret[2]

\* C4: full is true exactly when at least N pushes have been accepted.
C4_FullIffNPushes ==
    N > 0 => (full <=> Len(pushed) >= N)

\* C5: every slot a read takes (slots 0..N-1 when full, 0..index-1 otherwise)
\* has been written by an earlier accepted push, and no read has ever taken a
\* never-written slot.
C5_ReadsOnlyWrittenSlots ==
    lastOp \in {"get_all_copy", "get_all"}
        => /\ \A i \in ReadSlots : data[i] # Uninit
           /\ ~readUninit

\* C6: push never runs assume_init_drop on a slot that no push has written.
C6_DropsOnlyWrittenSlots ==
    ~droppedUninit

\* C7: for N > 0 the cursor stays within 0..N-1.
C7_IndexInRange ==
    N > 0 => (index >= 0 /\ index < N)

C7_Witness ==
    /\ N >= 2
    /\ Len(pushed) > N
    /\ index = 0

\* C8: while full is false, slots 0..index-1 hold the pushed values in push
\* order and every slot from index on has never been written.
C8_PartialFillLayout ==
    (N > 0 /\ ~full)
        => /\ index = Len(pushed)
           /\ \A i \in 0..(N - 1) :
                  IF i < index
                  THEN i < Len(pushed) /\ data[i] = pushed[i + 1]
                  ELSE data[i] = Uninit

C8_Witness ==
    /\ N >= 3
    /\ ~full
    /\ index >= 1
    /\ data[0] # Uninit
    /\ data[index] = Uninit

\* C9: a push whose gate answers false changes none of data, index and full,
\* raises no error and does not call update_timer().
C9_DeniedPushIsNoOp ==
    [][(timer # "None" /\ pushCalls' = pushCalls + 1 /\ ~lastCan')
          => /\ UNCHANGED <<data, index, full, pushed, updateTimerCalls>>
             /\ phase' = "live"]_vars

C9_Witness ==
    /\ timer # "None"
    /\ lastOp = "push"
    /\ ~lastCan
    /\ Len(pushed) >= 1
    /\ updateTimerCalls = Len(pushed)
    /\ phase = "live"

\* C10: with a gate that always answers false, however many pushes are made
\* the container stays empty: index 0, full false, get_all_copy() empty.
C10_DenyingGateStaysEmpty ==
    timer = "Never"
        => /\ is_empty
           /\ index = 0
           /\ ~full
           /\ \A i \in 0..(N - 1) : data[i] = Uninit
           /\ lastOp = "get_all_copy" => ret = <<>>

C10_Witness ==
    /\ timer = "Never"
    /\ N >= 1
    /\ pushCalls >= 2
    /\ lastOp = "get_all_copy"
    /\ ret = <<>>

\* How often event e occurs in trace tr.
Occurrences(tr, e) == Cardinality({k \in 1..Len(tr) : tr[k] = e})

\* C11: on a gated container every push asks can_do() exactly once and before
\* it mutates anything; an accepted push calls update_timer() exactly once,
\* after the write and the advance of the cursor, a denied push never does;
\* so update_timer() has been called as often as pushes have been accepted.
C11_GateProtocol ==
    (N > 0 /\ timer # "None")
        => /\ canDoCalls = pushCalls
           /\ updateTimerCalls = Len(pushed)
           /\ pushCalls > 0
                => /\ Len(lastTrace) >= 1
                   /\ lastTrace[1] = "can_do"
                   /\ Occurrences(lastTrace, "can_do") = 1
                   /\ IF lastCan
                      THEN /\ Occurrences(lastTrace, "update_timer") = 1
                           /\ Occurrences(lastTrace, "write") = 1
                           /\ Occurrences(lastTrace, "advance") = 1
                           /\ lastTrace[Len(lastTrace)] = "update_timer"
                      ELSE lastTrace = <<"can_do">>

C11_Witness ==
    /\ timer = "Interval"
    /\ N >= 2
    /\ lastOp = "push"
    /\ lastCan
    /\ Len(pushed) >= 2
    /\ Len(pushed) < pushCalls
    /\ Occurrences(lastTrace, "drop") = 1

\* C12: an accepted push moves the cursor to (index + 1) mod N and writes the
\* pushed value into the slot the cursor was at, changing no other slot.
C12_AcceptedPushStep ==
    [][(N > 0 /\ Len(pushed') = Len(pushed) + 1)
          => /\ index' = (index + 1) % N
             /\ data' = [data EXCEPT ![index] = pushed'[Len(pushed')]]]_vars

C12_Witness ==
    /\ N >= 2
    /\ lastOp = "push"
    /\ lastCan
    /\ Len(pushed) > N
    /\ Occurrences(lastTrace, "drop") = 1
    /\ data[(index + N - 1) % N] = pushed[Len(pushed)]

\* C13: however many pushes are made, get_all_copy() never returns more than
\* N elements, and neither push nor get_all_copy fails.
C13_BoundedSnapshot ==
    N > 0
        => /\ lastOp = "get_all_copy" => Len(ret) <= N
           /\ lastOp \in {"push", "get_all_copy"} => phase = "live"

C13_Witness ==
    /\ N >= 2
    /\ Len(pushed) >= N + 2
    /\ lastOp = "get_all_copy"
    /\ Len(ret) = N

\* C14: for N >= 1, is_empty() is !full && index == 0, and it is true exactly
\* when no push has been accepted, also after the cursor wrapped back to 0.
C14_EmptyIffNoPush ==
    N >= 1
        => /\ is_empty <=> Len(pushed) = 0
           /\ lastOp = "is_empty"
                => /\ ret = <<(~full /\ index = 0)>>
                   /\ ret = <<(Len(pushed) = 0)>>

C14_Witness ==
    /\ N >= 1
    /\ Len(pushed) >= N
    /\ index = 0
    /\ lastOp = "is_empty"
    /\ ret = <<FALSE>>

\* C15: new(gate) succeeds and gives index 0, full false and the gate it was
\* handed; the new container is empty and get_all(), get_all_copy() and
\* into_iter() return nothing.
C15_NewIsEmpty ==
    pushCalls = 0
        => /\ phase # "panicked"
           /\ N = newArgs[1]
           /\ timer = newArgs[2]
           /\ index = 0
           /\ ~full
           /\ lastOp = "is_empty" => ret = <<TRUE>>
           /\ lastOp \in {"get_all", "get_all_copy", "into_iter"} => ret = <<>>

C15_Witness ==
    /\ pushCalls = 0
    /\ N >= 1
    /\ timer = "Interval"
    /\ lastOp = "get_all"
    /\ ret = <<>>

\* C16: is_empty, get_all_copy and the averages leave data, index, full and
\* the gate as they were; a step that changes any of them is an accepted push.
C16_ReadsDoNotMutate ==
    [][/\ lastOp' \in {"is_empty", "get_all_copy", "average"}
            => UNCHANGED <<data, index, full, timer>>
       /\ <<data, index, full, timer>>' # <<data, index, full, timer>>
            => (lastOp' = "push" /\ lastCan' /\ Len(pushed') = Len(pushed) + 1)]_vars

C16_Witness ==
    /\ N >= 2
    /\ lastOp = "average"
    /\ phase = "live"
    /\ full
    /\ index >= 1
    /\ ret # <<0>>

\* C17: in every state get_all(), get_all_copy() and into_iter() (which is
\* get_all) yield one and the same sequence.
C17_ExtractionsAgree ==
    \A a \in GetAllResults, b \in ReadResults : a = b

\* C18: an average of an empty container returns the default 0, and when an
\* average divides, its divisor count is at least 1: it never divides by zero.
C18_AverageNeverDividesByZero ==
    (lastOp = "average" /\ ~readUninit)
        => /\ is_empty => (phase = "live" /\ ret = <<0>>)
           /\ panicMsg # "attempt to divide by zero"
           /\ (~is_empty /\ phase = "live") => count >= 1

RECURSIVE SumSeq(_)
SumSeq(s) == IF s = <<>> THEN 0 ELSE s[1] + SumSeq(Tail(s))

\* C19: when every accepted value is the same v (one push or more, N >= 1),
\* the integer average returns v.
C19_ConstantAverage ==
    (N >= 1 /\ lastOp = "average" /\ Len(pushed) >= 1
        /\ \A k \in 1..Len(pushed) : pushed[k] = pushed[1])
        => /\ phase = "live"
           /\ ret = <<pushed[1]>>

\* The values the container retains from the accepted pushes, in slot order.
Retained ==
    LET k == IF Len(pushed) < N THEN Len(pushed) ELSE N IN
    [i \in 1..k |-> pushed[NewestAt(pushed, i - 1)]]

\* C20: the integer average of a non-empty container is the truncating
\* quotient of the sum of the retained values by their number.
C20_AverageIsQuotient ==
    (N >= 1 /\ lastOp = "average" /\ Len(pushed) >= 1)
        => /\ phase = "live"
           /\ ret = <<SumSeq(Retained) \div Len(Retained)>>

\* C21: every average_* is total over the reachable contents: it returns a
\* value and never fails through arithmetic overflow of the running total,
\* even when the sum of the contents exceeds the largest value of T. (Stated
\* for averages that read written slots only, and for the failure at
\* total += el alone, which in each iteration runs before count += 1.)
C21_AverageTotalNeverOverflows ==
    (lastOp = "average" /\ ~readUninit)
        => panicMsg # "attempt to add with overflow: total += el"

\* C22: push completes without error or panic in every reachable state of
\* every MemoryCacher new() can construct, for every capacity N the type
\* admits (N = 0 included) and every value pushed.
C22_PushNeverPanics ==
    lastOp = "push" => (phase = "live" /\ panicMsg = "")

\* C28: whenever full is true, get_all() returns exactly N elements, the
\* slots 0..N-1 in slot order, whatever the value of index: element i is what
\* reading slot i gives, which is the slot's value when the slot was written.
C28_FullGetAllReturnsEverySlot ==
    (full /\ lastOp = "get_all")
        => /\ Len(ret) = N
           /\ \A i \in 0..(N - 1) :
                 /\ ret[i + 1] \in AssumeInitRead(data[i])
                 /\ data[i] # Uninit => ret[i + 1] = data[i]

\* The shape of tests::hand_constructed_get_all: full, index = N - 1, every
\* slot written, and get_all has returned.
C28_Witness ==
    /\ N >= 2
    /\ full
    /\ index = N - 1
    /\ \A i \in 0..(N - 1) : data[i] # Uninit
    /\ lastOp = "get_all"
    /\ Len(ret) = N
    /\ \E i, j \in 1..N : ret[i] # ret[j]

\* The values of the offers the gate let through (every offer when there is
\* no gate), in order.
AcceptedOffers ==
    LET sel == SelectSeq(offered, LAMBDA e : timer = "None" \/ e[2])
    IN  [k \in 1..Len(sel) |-> sel[k][1]]

\* The values that were offered and denied and that no accepted offer carried.
DeniedOnly ==
    {v \in Values :
        /\ \E k \in 1..Len(offered) : offered[k][1] = v
        /\ \A k \in 1..Len(AcceptedOffers) : AcceptedOffers[k] # v}

\* An ungated container of capacity N after the pushes s[k..] from state st.
RECURSIVE Replay(_, _, _)
Replay(s, k, st) ==
    IF k > Len(s) THEN st
    ELSE Replay(s, k + 1,
                [data  |-> WriteSlot(st.data, st.index, s[k]),
                 index |-> NextIndex(st.index),
                 full  |-> NextFull(st.full, NextIndex(st.index))])

Ungated(s) ==
    Replay(s, 1, [data |-> DefaultData(N), index |-> 0, full |-> FALSE])

\* The snapshots get_all_copy can return on a container in state st.
SnapshotsOf(st) ==
    IF ~st.full /\ st.index = 0 THEN {<<>>}
    ELSE LET end_index == IF st.full THEN N ELSE st.index IN
         {s \in [1..end_index -> Values] :
            \A i \in 1..end_index : s[i] \in AssumeInitRead(st.data[i - 1])}

\* C29: for a gate that accepts and denies in any pattern, the container
\* state and every snapshot are those of an ungated container given only the
\* accepted values, and a value whose push was denied (and never accepted)
\* does not appear in a snapshot.
C29_GateFiltersOffers ==
    LET u == Ungated(AcceptedOffers) IN
    /\ data = u.data
    /\ index = u.index
    /\ full = u.full
    /\ lastOp = "get_all_copy"
         => /\ ret \in SnapshotsOf(u)
            /\ \A k \in 1..Len(ret) : ret[k] \notin DeniedOnly

\* C23: each ScopedToListTimer causes exactly one push call on its target
\* during its lifetime, issued when the timer leaves scope (never at
\* creation, never twice), on every exit path, carrying the elapsed time.
C23_OnePushPerScopedTimer ==
    /\ [](pushCalls = stDropped)
    /\ [][(~stAlive /\ stAlive') => UNCHANGED cacherVars]_vars
    /\ [][(stAlive /\ ~stAlive')
            => /\ pushCalls' = pushCalls + 1
               /\ stExit' \in ExitPaths
               /\ Len(pushed') > Len(pushed)
                    => pushed'[Len(pushed')] = now - stStart]_vars

C23_Witness ==
    /\ stDropped >= 2
    /\ ~stAlive
    /\ stExit = "unwind"
    /\ pushCalls = stDropped
    /\ Len(pushed) >= 1
    /\ pushed[Len(pushed)] = 1

\* Thread t is between acquiring the MutexGuard and dropping it.
InCritical(t) == tpc[t] \in {"locked", "pushed", "unwinding"}

\* C24: for any number of threads dropping ThreadSafeScopedToListTimers on
\* one shared container, push runs only while the dropping thread holds the
\* mutex, at most one thread is inside push at a time, and the lock is
\* released after the push.
C24_PushUnderLock ==
    /\ [](\A t \in Threads : InCritical(t) => holder = t)
    /\ [](\A t \in Threads : tpc[t] \in {"done", "panicked"} => holder # t)
    /\ [][pushCalls' # pushCalls
            => \E t \in Threads : /\ holder = t
                                  /\ holder' = t
                                  /\ tpc[t] = "locked"
                                  /\ tpc'[t] \in {"pushed", "unwinding"}]_vars
    /\ [][\A t \in Threads :
            (tpc[t] \in {"pushed", "unwinding"} /\ tpc'[t] # tpc[t])
                => holder' = 0]_vars

C24_Witness ==
    \E t, u \in Threads :
        /\ tpc[t] = "done"
        /\ tpc[u] = "pushed"
        /\ twaited[u] > 0
        /\ holder = u
        /\ Len(pushed) = 2

\* No thread is inside a drop.
Quiescent == \A t \in Threads : tpc[t] \in {"idle", "running", "done"}

DoneThreads == {t \in Threads : tpc[t] = "done"}

\* The orders in which the dropped timers' pushes can be applied.
DropOrders ==
    {o \in [1..Cardinality(DoneThreads) -> DoneThreads] :
        \A i, j \in 1..Cardinality(DoneThreads) : o[i] = o[j] => i = j}

\* C25: when K ThreadSafeScopedToListTimers sharing one ungated container
\* are dropped concurrently, under every interleaving the final state is
\* the one produced by the K pushes applied one after another in some
\* order: exactly K pushes are accepted, none lost or applied partially.
C25_DropsSerialise ==
    (timer = "None" /\ Quiescent)
        => /\ pushCalls = Cardinality(DoneThreads)
           /\ Len(pushed) = Cardinality(DoneThreads)
           /\ \E o \in DropOrders :
                 LET s == [k \in 1..Cardinality(DoneThreads) |-> telapsed[o[k]]]
                     u == Ungated(s)
                 IN  /\ pushed = s
                     /\ N >= 1 => (data = u.data /\ index = u.index /\ full = u.full)

C25_Witness ==
    /\ timer = "None"
    /\ N = 2
    /\ \A t \in Threads : tpc[t] = "done"
    /\ Len(pushed) = NumThreads
    /\ full
    /\ \E t, u \in Threads :
          /\ t < u
          /\ telapsed[t] # telapsed[u]
          /\ pushed[1] = telapsed[u]

\* C26: a thread dropping its timer while another holds the lock waits (no
\* timeout, no cancellation, no skipped push); under fair scheduling and
\* without poisoning every such drop eventually acquires the lock and
\* completes its push, and the recorders never deadlock.
C26_BlockedDropCompletes ==
    /\ [][\A t \in Threads :
            (tpc[t] = "captured" /\ tpc'[t] # "captured")
                => /\ holder = 0
                   /\ poisoned \/ (tpc'[t] = "locked" /\ holder' = t)]_vars
    /\ [][\A t \in Threads :
            (tpc[t] = "locked" /\ tpc'[t] # "locked")
                => pushCalls' = pushCalls + 1]_vars
    /\ \A t \in Threads : (tpc[t] = "captured") ~> (tpc[t] = "done" \/ poisoned)

C26_Witness ==
    \E t \in Threads :
        /\ tpc[t] = "done"
        /\ twaited[t] > 0
        /\ ~poisoned

\* C27: if the shared lock is poisoned when a ThreadSafeScopedToListTimer is
\* dropped, the drop ends in a fatal outcome (panic or exit) without calling
\* push, and data, index and full are left unchanged by that drop.
C27_PoisonedDropIsFatal ==
    /\ [](poisoned => \A t \in Threads : ~InCritical(t))
    /\ [][\A t \in Threads :
            (poisoned /\ tpc[t] = "captured" /\ tpc'[t] # "captured")
                => /\ tpc'[t] \in {"panicked", "exited"}
                   /\ UNCHANGED <<data, index, full, pushCalls, pushed>>]_vars

C27_Witness ==
    /\ poisoned
    /\ \E t, u \in Threads :
          /\ t # u
          /\ tpc[t] = "panicked"
          /\ tpc[u] = "exited"

\* C30: in ThreadSafeScopedToListTimer::drop the elapsed duration is taken
\* before the lock is requested, so the duration pushed never includes the
\* time the thread spent blocked waiting for the lock.
C30_ElapsedExcludesLockWait ==
    /\ [](\A t \in Threads :
            tpc[t] \in {"captured", "locked"}
                => telapsed[t] + twaited[t] <= now - tstart[t])
    /\ [][\A t \in Threads :
            (tpc[t] = "locked" /\ tpc'[t] = "pushed" /\ Len(pushed') > Len(pushed))
                => /\ pushed'[Len(pushed')] = telapsed[t]
                   /\ pushed'[Len(pushed')] + twaited[t] <= now - tstart[t]]_vars

C30_Witness ==
    \E t \in Threads :
        /\ tpc[t] = "pushed"
        /\ lastCan
        /\ twaited[t] > 0
        /\ pushed[Len(pushed)] = telapsed[t]
        /\ now - tstart[t] > telapsed[t]

\* C31: in each integer average the counter `count`, which has the divisor
\* type, equals the number of elements of the snapshot at the moment of the
\* division, for every capacity N, capacities above the largest value of the
\* type included; the counter never overflows or wraps. (Stated for averages
\* that read written slots only.)
C31_CountIsSnapshotLength ==
    (lastOp = "average" /\ ~is_empty /\ ~readUninit)
        => /\ panicMsg # "attempt to add with overflow: count += 1"
           /\ panicMsg # "attempt to add with overflow: total += el"
                => count = EndIndex

\* C32: starting from Coords::default() = InBounds(0, 0) with bounds W x H,
\* repeated increment() visits every coordinate of the grid exactly once in
\* row-major order (x first, then y): each of the first W*H - 1 calls
\* returns true and leaves the next coordinate, and the call made at
\* (W-1, H-1) returns false and leaves OutOfBounds. cpath[j + 1] is the
\* outcome of call j.
C32_IncrementWalksRowMajor ==
    cpath # <<>>
        => /\ cpath[1].c = InBounds(0, 0)
           /\ cpanic = ""
           /\ \A j \in 1..(Len(cpath) - 1) :
                 /\ j <= MAX_WIDTH * MAX_HEIGHT - 1
                      => /\ cpath[j + 1].ret = TRUE
                         /\ cpath[j + 1].c = InBounds(j % MAX_WIDTH, j \div MAX_WIDTH)
                 /\ j = MAX_WIDTH * MAX_HEIGHT
                      => /\ cpath[j + 1].ret = FALSE
                         /\ cpath[j + 1].c = OutOfBounds

\* C33: OutOfBounds is absorbing: +, -, * and / with an OutOfBounds operand
\* yield OutOfBounds, increment() on OutOfBounds returns false and leaves it
\* OutOfBounds; no operation turns OutOfBounds back into InBounds.
C33_OutOfBoundsAbsorbs ==
    [][(/\ cop'[1] \in {"add", "sub", "mul", "div", "increment"}
        /\ is_oob(coord) \/ cop'[2])
          => /\ is_oob(coord')
             /\ cpanic' = ""
             /\ cop'[1] = "increment" => cret' = FALSE]_vars

\* A walk that went OutOfBounds and was incremented once more.
C33_Witness ==
    /\ Len(cpath) >= 4
    /\ is_oob(cpath[Len(cpath) - 1].c)
    /\ is_oob(coord)
    /\ cop = <<"increment", FALSE>>
    /\ cret = FALSE

\* C34: every InBounds(x, y) produced by Coords::from, by +, -, * or /, or by
\* increment() is a coordinate of the grid, 0 <= x < MAX_WIDTH and
\* 0 <= y < MAX_HEIGHT, for every numeric type T, signed ones included.
\* (Stated for grids that have a coordinate at all.)
C34_InBoundsIsOnTheGrid ==
    (/\ MAX_WIDTH >= 1
     /\ MAX_HEIGHT >= 1
     /\ cop[1] \in {"from", "add", "sub", "mul", "div", "increment"}
     /\ cpanic = ""
     /\ is_ib(coord))
        => /\ 0 <= coord[2] /\ coord[2] < MAX_WIDTH
           /\ 0 <= coord[3] /\ coord[3] < MAX_HEIGHT

\* C35: TwoArray::from_function(f) terminates with a backing of exactly W*H
\* elements in row-major order, backing[y*W + x] = f(InBounds(x, y)), having
\* called f exactly once per grid coordinate and never with OutOfBounds.
C35_FromFunctionBuildsRowMajor ==
    aphase # "none"
        => /\ aphase \in {"built", "iterating"}
           /\ Len(backing) = MAX_WIDTH * MAX_HEIGHT
           /\ Len(fcalls) = MAX_WIDTH * MAX_HEIGHT
           /\ \A x \in 0..(MAX_WIDTH - 1) : \A y \in 0..(MAX_HEIGHT - 1) :
                 /\ backing[y * MAX_WIDTH + x + 1] = Apply(afn, InBounds(x, y))
                 /\ fcalls[y * MAX_WIDTH + x + 1] = InBounds(x, y)

\* The same statement for grids with a cell: W >= 1 and H >= 1.
C35_FromFunctionOnNonEmptyGrid ==
    (MAX_WIDTH >= 1 /\ MAX_HEIGHT >= 1) => C35_FromFunctionBuildsRowMajor

\* A 3 x 2 array of its own coordinates has been built.
C35_NonEmptyGridBuilt ==
    /\ MAX_WIDTH = 3 /\ MAX_HEIGHT = 2 /\ afn = "coord" /\ aphase = "built"
    /\ backing = <<InBounds(0, 0), InBounds(1, 0), InBounds(2, 0),
                   InBounds(0, 1), InBounds(1, 1), InBounds(2, 1)>>

\* The coordinate reached after k increment() calls from c.
RECURSIVE AfterIncrements(_, _)
AfterIncrements(c, k) ==
    IF k = 0 THEN c ELSE AfterIncrements(increment("usize", c).c, k - 1)

\* C36: iterating a TwoArray built by from_function yields exactly W*H items
\* and then ends; the i-th item is (backing[i], c_i), c_i being the coordinate
\* reached after i increment() calls from (0,0), which is the coordinate that
\* indexes the element; the iterator never reads outside the backing.
C36_IterationYieldsEveryCell ==
    /\ apanic # "index out of bounds"
    /\ aphase = "iterating"
         => /\ Len(itout) <= MAX_WIDTH * MAX_HEIGHT
            /\ \A i \in 1..Len(itout) :
                  LET c == AfterIncrements(InBounds(0, 0), i - 1) IN
                  /\ itout[i] = <<backing[i], c>>
                  /\ is_ib(c)
                  /\ to_usize(c) = {i - 1}
            /\ itlast = <<"None">> => Len(itout) = MAX_WIDTH * MAX_HEIGHT
            /\ Len(itout) = MAX_WIDTH * MAX_HEIGHT => is_oob(itpos)

\* A 3 x 2 array has been iterated to its end.
C36_Witness ==
    /\ aphase = "iterating" /\ MAX_WIDTH = 3 /\ MAX_HEIGHT = 2 /\ afn = "number"
    /\ itlast = <<"None">>
    /\ Len(itout) = 6
    /\ itout[4] = <<1, InBounds(0, 1)>>

\* C37: Cacher insert/get are load-once. If p is already in assets, insert(p)
\* and get(p) return Ok without calling the texture loader and without
\* changing assets; over any sequence of calls the loader succeeds at most
\* once per path; after any successful insert(p) or get(p), p is in assets.
C37_LoadOnce ==
    [][LET p == alast'[2] IN
       /\ contains_key(assets, p)
            => /\ alast'[3][1] = "Ok"
               /\ attempts' = attempts
               /\ assets' = assets
       /\ \A q \in Paths : okLoads'[q] <= 1
       /\ alast'[3][1] = "Ok" => contains_key(assets', p)]_vars

\* Both paths are cached, one after a failed attempt, and the last call was
\* a get of a cached path that gave the texture of the one successful load.
C37_Witness ==
    /\ \A q \in Paths : contains_key(assets, q) /\ okLoads[q] = 1
    /\ attempts[1] = 2
    /\ alast = <<"get", 1, <<"Ok", Tex(1, 2)>> >>

\* C38: when the texture loader fails for p, insert(p) and get(p) return an
\* error and leave assets unchanged (p not inserted, no other entry removed
\* or replaced); a later insert(p) or get(p) attempts the load again.
C38_FailedLoadChangesNothing ==
    [][LET p == alast'[2] IN
       /\ (attempts'[p] # attempts[p] /\ okLoads'[p] = okLoads[p])
            => /\ alast'[3][1] = "Err"
               /\ assets' = assets
               /\ ~contains_key(assets', p)
       /\ alast'[3][1] = "Err"
            => /\ assets' = assets
               /\ attempts'[p] = attempts[p] + 1
       /\ (attempts[p] > okLoads[p] /\ ~contains_key(assets, p))
            => attempts'[p] = attempts[p] + 1]_vars

\* A load of path 2 failed twice while path 1 stayed cached, the last call
\* being the second failure.
C38_Witness ==
    /\ contains_key(assets, 1)
    /\ attempts[2] = 2 /\ okLoads[2] = 0 /\ ~contains_key(assets, 2)
    /\ alast[1] \in {"insert", "get"} /\ alast[2] = 2 /\ alast[3][1] = "Err"

====
